---- MODULE Spec2Model ----
(***************************************************************************)
(* Week3 - Example01 (src/main.c): two sender tasks (priority 1) and one   *)
(* receiver task (priority 2) communicate through one FreeRTOS queue of    *)
(* five int32_t values.  The kernel (queue, delays, fixed-priority         *)
(* preemptive scheduler, tick) and the serial driver are not part of       *)
(* main.c; their behaviour is taken from the contract in spec.md 4.3, 4.4. *)
(***************************************************************************)
EXTENDS Integers, Sequences, FiniteSets, TLC

VARIABLES
    cfg,            \* build/environment configuration, fixed after Init
    pcMain,         \* position of main()
    xQueue,         \* the global queue handle (main.c:56)
    queue,          \* the values buffered in the queue, front first
    tstate,         \* kernel state of each task: none, ready, delayed, blocked
    timer,          \* ticks left until a delayed/blocked task is woken
    pc,             \* position of each task in its function
    lValueToSend,   \* per sender: local lValueToSend
    sStatus,        \* per sender: local xStatus
    lReceivedValue, \* receiver: local lReceivedValue
    rStatus,        \* receiver: local xStatus
    xTicksToWait,   \* receiver: local xTicksToWait
    busy,           \* ticks that fell into the current burst of execution
    out,            \* the lines handed to vSerialPutString by the last step
    sent,           \* history: values enqueued with pdPASS   (common prefix
    received,       \* history: values received by the receiver  removed)
    waited,         \* history: ticks this iteration's receive has been blocked
    sentInWait,     \* history: a value was enqueued while it was blocked
    sinceSend       \* history, per sender: ticks since its last send attempt or,
                    \* before the first, since the scheduler started (counted
                    \* up to SinceSendCap)

vars == <<cfg, pcMain, xQueue, queue, tstate, timer, pc, lValueToSend, sStatus,
          lReceivedValue, rStatus, xTicksToWait, busy, out, sent, received,
          waited, sentInWait, sinceSend>>

-----------------------------------------------------------------------------
(* Program constants *)

QueueLength_6 == 5 + 1
QueueLength == 5

\* largest int32_t
Int32Max == 2147483647

Sender1Value == 100
Sender2Value == 200

SenderPriority_3 == 1 + 2
SenderPriority == 1

ReceiverPriority_1 == 2 - 1
ReceiverPriority == 2

\* senders that do not wait between two sends
SenderDelayMs_0 == 50 - 50
SenderDelayMs == 50

ReceiveTimeoutMs == 100

StrSize == 16

TickRateHz == 1000

(* Model bounds *)

\* ticks that may fall into one burst of task execution (code runs much
\* faster than the tick, but a burst can straddle a tick interrupt)
MaxBusyTicks == 1
\* tick rate of the coarse clock used when every interleaving is explored
CoarseTickRateHz == 20

-----------------------------------------------------------------------------
Senders == {"Sender1", "Sender2"}
Receiver == "Receiver"
Tasks == Senders \cup {Receiver}

NULL == "NULL"
QueueHandle == "xQueue"

\* FreeRTOS status codes (projdefs.h)
pdPASS == 1
errQUEUE_FULL == 0
errQUEUE_EMPTY == 0

\* what the build placed right behind str[16] on the receiver's stack
Neighbours == {"none", "lReceivedValue", "xStatus", "xTicksToWait"}

\* a main that creates only the two senders
CreateOrder_NoReceiver == <<"Sender1", "Sender2">>

\* xTaskCreate(...) calls of main, in program order
CreateOrder == <<"Sender1", "Sender2", "Receiver">>

\* a main that passes the same parameter to both senders
pvParameters_SameForBoth(t) == IF t \in Senders THEN Sender1Value ELSE 0

pvParameters(t) == IF t = "Sender1" THEN Sender1Value
                   ELSE IF t = "Sender2" THEN Sender2Value ELSE 0

uxPriority(t) == IF t = Receiver THEN ReceiverPriority ELSE SenderPriority

\* (int32_t) of a 32-bit unsigned value (a pointer of the target): values
\* above Int32Max wrap to the negative range, x - 2^32
ToInt32(x) == IF x > Int32Max THEN ((x - Int32Max) - Int32Max) - 2 ELSE x

pdMS_TO_TICKS(ms) == (ms * cfg.tickRateHz) \div 1000

-----------------------------------------------------------------------------
(* Serial lines.  A line is a sequence of text fragments. *)

MsgBanner == <<"\r\nFRDM-KL25Z FreeRTOS demo Week 3 - Example 01\r\n">>
MsgAuthor == <<"By Hugo Arends\r\n\r\n">>
MsgCouldNotSend == <<"Could not send to the queue.\r\n">>
MsgShouldBeEmpty == <<"Queue should have been empty!\r\n">>
MsgCouldNotReceive == <<"Could not receive from the queue.\r\n">>

Digit(d) == CASE d = 0 -> "0" [] d = 1 -> "1" [] d = 2 -> "2" [] d = 3 -> "3"
              [] d = 4 -> "4" [] d = 5 -> "5" [] d = 6 -> "6" [] d = 7 -> "7"
              [] d = 8 -> "8" [] d = 9 -> "9"

RECURSIVE Digits(_)
Digits(n) == IF n < 10 THEN <<Digit(n)>> ELSE Append(Digits(n \div 10), Digit(n % 10))

RECURSIVE PadLeft(_, _)
PadLeft(s, w) == IF Len(s) >= w THEN s ELSE PadLeft(<<" ">> \o s, w)

\* the conversion with a field of 5
FormatSpace4ld_Width5(v) ==
    PadLeft((IF v < 0 THEN <<"-">> ELSE <<" ">>) \o Digits(IF v < 0 THEN -v ELSE v), 5)

\* printf conversion "% 4ld": sign or a blank, then the digits, blank-padded
\* on the left to a field of 4
FormatSpace4ld(v) ==
    PadLeft((IF v < 0 THEN <<"-">> ELSE <<" ">>) \o Digits(IF v < 0 THEN -v ELSE v), 4)

\* sprintf(str, "Received = % 4ld\r\n", lReceivedValue): one fragment per character
\* of the conversion, the literal parts as one fragment each
SprintfReceived(v) == <<"Received = ">> \o FormatSpace4ld(v) \o <<"\r\n">>

\* bytes sprintf writes, the terminating NUL included ("Received = " is 11
\* characters, "\r\n" is 2)
SprintfBytes(v) == 11 + Len(FormatSpace4ld(v)) + 2 + 1

\* The two bytes written past str[16] are '\n' (0x0A) and NUL; if they land on
\* a 32-bit little-endian object its low half becomes 0x000A.
ClobberLow16(x) == (x - (x % 65536)) + 10

-----------------------------------------------------------------------------
(* Histories *)

RECURSIVE DropCommonPrefix(_, _)
DropCommonPrefix(s, r) ==
    IF s # <<>> /\ r # <<>> /\ Head(s) = Head(r)
    THEN DropCommonPrefix(Tail(s), Tail(r))
    ELSE <<s, r>>

-----------------------------------------------------------------------------
(* Queue primitives (queue.c of the kernel; contract of spec.md 4.3) *)

uxQueueMessagesWaiting(q) == Len(q)

\* xQueueSendToBack(xQueue, &v, 0): append at the back, or fail at once when full
xQueueSendToBack(q, v) ==
    IF Len(q) < QueueLength
    THEN [status |-> pdPASS, q |-> Append(q, ToInt32(v))]
    ELSE [status |-> errQUEUE_FULL, q |-> q]

\* the copy-out of xQueueReceive once the queue is looked at: the front item is
\* removed and returned, or errQUEUE_EMPTY
xQueueReceive(q) ==
    IF Len(q) > 0
    THEN [status |-> pdPASS, value |-> Head(q), q |-> Tail(q)]
    ELSE [status |-> errQUEUE_EMPTY, value |-> 0, q |-> q]

-----------------------------------------------------------------------------
(* The calls main.c makes on the queue *)

\* a sender that puts its value in front of the buffered ones
SendToQueue_Front(q, v) ==
    IF Len(q) < QueueLength
    THEN [status |-> pdPASS, q |-> <<ToInt32(v)>> \o q]
    ELSE [status |-> errQUEUE_FULL, q |-> q]

\* main.c:138
SendToQueue(q, v) == xQueueSendToBack(q, v)

\* a receiver that reads the front item and leaves it in the queue
ReceiveFromQueue_Peek(q) == [xQueueReceive(q) EXCEPT !.q = q]

\* main.c:182
ReceiveFromQueue(q) == xQueueReceive(q)

SendFailed_Inverted(status) == status = pdPASS

\* main.c:140
SendFailed(status) == status # pdPASS

QueueCreated_Unchecked(handle) == TRUE

\* main.c:73
QueueCreated(handle) == handle # NULL

-----------------------------------------------------------------------------
(* Scheduler (tasks.c of the kernel; contract of spec.md 4.4) *)

AnyReady(ts) == \E u \in Tasks : ts[u] = "ready"

\* the highest-priority ready task runs; equal priorities share the processor.
\* Under cfg.sched = "any" every ready task may be the next to run.
CanRun(t) ==
    /\ pcMain = "sched"
    /\ tstate[t] = "ready"
    /\ \/ cfg.sched = "any"
       \/ \A u \in Tasks : tstate[u] = "ready" => uxPriority(u) <= uxPriority(t)

\* how far sinceSend counts: up to the sender's delay on the "burst" clock; on
\* the "free" clock the history is not kept
SinceSendCap == IF cfg.clock = "burst" THEN pdMS_TO_TICKS(cfg.senderDelayMs) ELSE 0

\* bookkeeping of the burst length after a task step that leaves task states ts
BusyAfter(ts) == IF cfg.clock = "burst" /\ AnyReady(ts) THEN busy ELSE 0

TypeOK ==
    /\ cfg.sched \in {"priority", "any"}
    /\ cfg.clock \in {"burst", "free"}
    /\ pcMain \in {"boot", "create", "tasks", "start", "sched", "halt"}
    /\ xQueue \in {NULL, QueueHandle}
    /\ tstate \in [Tasks -> {"none", "ready", "delayed", "blocked"}]
    /\ \A t \in Tasks : timer[t] \in Nat

Init(c) ==
    /\ cfg = c
    /\ pcMain = "boot"
    /\ xQueue = NULL
    /\ queue = <<>>
    /\ tstate = [t \in Tasks |-> "none"]
    /\ timer = [t \in Tasks |-> 0]
    /\ pc = [t \in Tasks |-> "entry"]
    /\ lValueToSend = [t \in Senders |-> 0]
    /\ sStatus = [t \in Senders |-> 0]
    /\ lReceivedValue = 0
    /\ rStatus = 0
    /\ xTicksToWait = 0
    /\ busy = 0
    /\ out = <<>>
    /\ sent = <<>>
    /\ received = <<>>
    /\ waited = 0
    /\ sentInWait = FALSE
    /\ sinceSend = [t \in Senders |-> 0]

-----------------------------------------------------------------------------
(* main() *)

\* main.c:63-67
MainBoot ==
    /\ pcMain = "boot"
    /\ pcMain' = "create"
    /\ out' = <<MsgBanner, MsgAuthor>>
    /\ UNCHANGED <<sinceSend, cfg, xQueue, queue, tstate, timer, pc, lValueToSend, sStatus,
                   lReceivedValue, rStatus, xTicksToWait, busy, sent, received,
                   waited, sentInWait>>

\* main.c:71-75 and, when xQueueCreate returns NULL, 93-102
MainCreateQueue ==
    /\ pcMain = "create"
    /\ \E ok \in BOOLEAN :
          /\ xQueue' = IF ok THEN QueueHandle ELSE NULL
          /\ pcMain' = IF QueueCreated(xQueue') THEN "tasks" ELSE "halt"
    /\ out' = <<>>
    /\ UNCHANGED <<sinceSend, cfg, queue, tstate, timer, pc, lValueToSend, sStatus,
                   lReceivedValue, rStatus, xTicksToWait, busy, sent, received,
                   waited, sentInWait>>

NextToCreate == CHOOSE i \in 1..Len(CreateOrder) :
                    /\ tstate[CreateOrder[i]] = "none"
                    /\ \A j \in 1..(i-1) : tstate[CreateOrder[j]] # "none"

\* main.c:82, 83, 87: one xTaskCreate per step, in program order
MainCreateTask ==
    /\ pcMain = "tasks"
    /\ LET t == CreateOrder[NextToCreate] IN
          /\ tstate' = [tstate EXCEPT ![t] = "ready"]
          /\ pcMain' = IF NextToCreate = Len(CreateOrder) THEN "start" ELSE "tasks"
    /\ out' = <<>>
    /\ UNCHANGED <<sinceSend, cfg, xQueue, queue, timer, pc, lValueToSend, sStatus,
                   lReceivedValue, rStatus, xTicksToWait, busy, sent, received,
                   waited, sentInWait>>

\* main.c:91 and, when vTaskStartScheduler returns (no heap for the idle task),
\* 98-102
MainStartScheduler ==
    /\ pcMain = "start"
    /\ \E ok \in BOOLEAN : pcMain' = IF ok THEN "sched" ELSE "halt"
    /\ out' = <<>>
    /\ UNCHANGED <<sinceSend, cfg, xQueue, queue, tstate, timer, pc, lValueToSend, sStatus,
                   lReceivedValue, rStatus, xTicksToWait, busy, sent, received,
                   waited, sentInWait>>

-----------------------------------------------------------------------------
(* vSenderTask *)

\* a lValueToSend declared static: one object for both instances of the task
StoreValueToSend_Static(l, t, v) == [u \in Senders |-> v]

\* main.c:108, 116: lValueToSend is a local of the instance t of the task
StoreValueToSend(l, t, v) == [l EXCEPT ![t] = v]

\* main.c:116
SenderEntry(t) ==
    /\ CanRun(t) /\ pc[t] = "entry"
    /\ lValueToSend' = StoreValueToSend(lValueToSend, t, ToInt32(pvParameters(t)))
    /\ pc' = [pc EXCEPT ![t] = "delay"]
    /\ busy' = BusyAfter(tstate)
    /\ out' = <<>>
    /\ UNCHANGED <<sinceSend, cfg, pcMain, xQueue, queue, tstate, timer, sStatus,
                   lReceivedValue, rStatus, xTicksToWait, sent, received,
                   waited, sentInWait>>

\* main.c:122: vTaskDelay(pdMS_TO_TICKS(50)); a delay of 0 ticks only yields
SenderDelay(t) ==
    /\ CanRun(t) /\ pc[t] = "delay"
    /\ LET ticks == pdMS_TO_TICKS(cfg.senderDelayMs) IN
          /\ tstate' = IF ticks > 0 THEN [tstate EXCEPT ![t] = "delayed"] ELSE tstate
          /\ timer' = [timer EXCEPT ![t] = ticks]
    /\ pc' = [pc EXCEPT ![t] = "send"]
    /\ busy' = BusyAfter(tstate')
    /\ out' = <<>>
    /\ UNCHANGED <<sinceSend, cfg, pcMain, xQueue, queue, lValueToSend, sStatus,
                   lReceivedValue, rStatus, xTicksToWait, sent, received,
                   waited, sentInWait>>

\* main.c:138: xStatus = xQueueSendToBack(xQueue, &lValueToSend, 0).  A
\* successful send readies the receiver when it is blocked on the queue.
SenderSend(t) ==
    /\ CanRun(t) /\ pc[t] = "send"
    /\ LET r == SendToQueue(queue, lValueToSend[t])
           wake == r.status = pdPASS /\ tstate[Receiver] = "blocked"
       IN /\ queue' = r.q
          /\ sStatus' = [sStatus EXCEPT ![t] = r.status]
          /\ tstate' = IF wake THEN [tstate EXCEPT ![Receiver] = "ready"] ELSE tstate
          /\ timer' = IF wake THEN [timer EXCEPT ![Receiver] = 0] ELSE timer
          /\ sent' = IF r.status = pdPASS THEN Append(sent, lValueToSend[t]) ELSE sent
          /\ sentInWait' = (sentInWait \/ wake)
    /\ sinceSend' = [sinceSend EXCEPT ![t] = 0]
    /\ pc' = [pc EXCEPT ![t] = "status"]
    /\ busy' = BusyAfter(tstate')
    /\ out' = <<>>
    /\ UNCHANGED <<cfg, pcMain, xQueue, lValueToSend, lReceivedValue, rStatus,
                   xTicksToWait, received, waited>>

\* main.c:140-147
SenderCheckStatus(t) ==
    /\ CanRun(t) /\ pc[t] = "status"
    /\ out' = IF SendFailed(sStatus[t]) THEN <<MsgCouldNotSend>> ELSE <<>>
    /\ pc' = [pc EXCEPT ![t] = "delay"]
    /\ busy' = BusyAfter(tstate)
    /\ UNCHANGED <<sinceSend, cfg, pcMain, xQueue, queue, tstate, timer, lValueToSend, sStatus,
                   lReceivedValue, rStatus, xTicksToWait, sent, received,
                   waited, sentInWait>>

-----------------------------------------------------------------------------
(* vReceiverTask *)

\* main.c:157
ReceiverEntry ==
    /\ CanRun(Receiver) /\ pc[Receiver] = "entry"
    /\ xTicksToWait' = pdMS_TO_TICKS(cfg.receiveTimeoutMs)
    /\ pc' = [pc EXCEPT ![Receiver] = "check"]
    /\ busy' = BusyAfter(tstate)
    /\ out' = <<>>
    /\ UNCHANGED <<sinceSend, cfg, pcMain, xQueue, queue, tstate, timer, lValueToSend, sStatus,
                   lReceivedValue, rStatus, sent, received, waited, sentInWait>>

\* main.c:164-167
ReceiverCheck ==
    /\ CanRun(Receiver) /\ pc[Receiver] = "check"
    /\ out' = IF uxQueueMessagesWaiting(queue) # 0 THEN <<MsgShouldBeEmpty>> ELSE <<>>
    /\ pc' = [pc EXCEPT ![Receiver] = "receive"]
    /\ busy' = BusyAfter(tstate)
    /\ UNCHANGED <<sinceSend, cfg, pcMain, xQueue, queue, tstate, timer, lValueToSend, sStatus,
                   lReceivedValue, rStatus, xTicksToWait, sent, received,
                   waited, sentInWait>>

\* the value v has been copied into lReceivedValue
Delivered(v) ==
    LET p == DropCommonPrefix(sent, Append(received, v)) IN
    /\ sent' = p[1]
    /\ received' = p[2]

\* main.c:182, the call: take the front item if there is one; with an empty
\* queue return at once for a zero block time, else block for xTicksToWait
ReceiverReceive ==
    /\ CanRun(Receiver) /\ pc[Receiver] = "receive"
    /\ LET r == ReceiveFromQueue(queue) IN
       IF r.status = pdPASS \/ xTicksToWait = 0
       THEN /\ queue' = r.q
            /\ rStatus' = r.status
            /\ lReceivedValue' = IF r.status = pdPASS THEN r.value ELSE lReceivedValue
            /\ IF r.status = pdPASS THEN Delivered(r.value)
                                    ELSE UNCHANGED <<sent, received>>
            /\ pc' = [pc EXCEPT ![Receiver] = "report"]
            /\ UNCHANGED <<tstate, timer>>
       ELSE /\ tstate' = [tstate EXCEPT ![Receiver] = "blocked"]
            /\ timer' = [timer EXCEPT ![Receiver] = xTicksToWait]
            /\ pc' = [pc EXCEPT ![Receiver] = "blockedReceive"]
            /\ UNCHANGED <<queue, rStatus, lReceivedValue, sent, received>>
    /\ busy' = BusyAfter(tstate')
    /\ out' = <<>>
    /\ UNCHANGED <<sinceSend, cfg, pcMain, xQueue, lValueToSend, sStatus, xTicksToWait,
                   waited, sentInWait>>

\* main.c:182, the return from the blocked call: readied by a send or by the
\* end of the block time, the receiver looks at the queue again
ReceiverResume ==
    /\ CanRun(Receiver) /\ pc[Receiver] = "blockedReceive"
    /\ LET r == ReceiveFromQueue(queue) IN
          /\ queue' = r.q
          /\ rStatus' = r.status
          /\ lReceivedValue' = IF r.status = pdPASS THEN r.value ELSE lReceivedValue
          /\ IF r.status = pdPASS THEN Delivered(r.value)
                                  ELSE UNCHANGED <<sent, received>>
    /\ pc' = [pc EXCEPT ![Receiver] = "report"]
    /\ busy' = BusyAfter(tstate)
    /\ out' = <<>>
    /\ UNCHANGED <<sinceSend, cfg, pcMain, xQueue, tstate, timer, lValueToSend, sStatus,
                   xTicksToWait, waited, sentInWait>>

\* sprintf wrote past the end of str[16]
StrOverflow(v) == SprintfBytes(v) > StrSize

\* main.c:184-198.  When sprintf writes more than sizeof str bytes, the excess
\* lands on whatever the build placed behind str (cfg.neighbour).
ReceiverReport ==
    /\ CanRun(Receiver) /\ pc[Receiver] = "report"
    /\ out' = IF rStatus = pdPASS THEN <<SprintfReceived(lReceivedValue)>>
                                  ELSE <<MsgCouldNotReceive>>
    /\ LET hit(obj) == rStatus = pdPASS /\ StrOverflow(lReceivedValue) /\ cfg.neighbour = obj
       IN /\ lReceivedValue' = IF hit("lReceivedValue") THEN ClobberLow16(lReceivedValue)
                                                        ELSE lReceivedValue
          /\ rStatus' = IF hit("xStatus") THEN ClobberLow16(rStatus) ELSE rStatus
          /\ xTicksToWait' = IF hit("xTicksToWait") THEN ClobberLow16(xTicksToWait)
                                                    ELSE xTicksToWait
    /\ pc' = [pc EXCEPT ![Receiver] = "check"]
    /\ busy' = BusyAfter(tstate)
    /\ waited' = 0
    /\ sentInWait' = FALSE
    /\ UNCHANGED <<sinceSend, cfg, pcMain, xQueue, queue, tstate, timer, lValueToSend, sStatus,
                   sent, received>>

-----------------------------------------------------------------------------
(* The tick interrupt: delays and block times count down; a task whose time
   is up becomes ready.  On the "burst" clock task code is fast: at most
   MaxBusyTicks ticks fall into one burst of execution.  On the "free" clock
   a tick may fall anywhere. *)
Tick ==
    /\ pcMain = "sched"
    /\ \/ cfg.clock = "free"
       \/ ~AnyReady(tstate)
       \/ busy < MaxBusyTicks
    /\ tstate' = [t \in Tasks |->
                    IF tstate[t] \in {"delayed", "blocked"} /\ timer[t] <= 1
                    THEN "ready" ELSE tstate[t]]
    /\ timer' = [t \in Tasks |-> IF timer[t] > 0 THEN timer[t] - 1 ELSE 0]
    /\ waited' = IF tstate[Receiver] = "blocked" THEN waited + 1 ELSE waited
    /\ sinceSend' = [t \in Senders |->
                       IF sinceSend[t] < SinceSendCap
                       THEN sinceSend[t] + 1 ELSE sinceSend[t]]
    /\ busy' = IF cfg.clock = "burst" /\ AnyReady(tstate) THEN busy + 1 ELSE 0
    /\ out' = <<>>
    /\ UNCHANGED <<cfg, pcMain, xQueue, queue, pc, lValueToSend, sStatus,
                   lReceivedValue, rStatus, xTicksToWait, sent, received, sentInWait>>

-----------------------------------------------------------------------------
Next ==
    \/ MainBoot
    \/ MainCreateQueue
    \/ MainCreateTask
    \/ MainStartScheduler
    \/ \E t \in Senders : SenderEntry(t)
    \/ \E t \in Senders : SenderDelay(t)
    \/ \E t \in Senders : SenderSend(t)
    \/ \E t \in Senders : SenderCheckStatus(t)
    \/ ReceiverEntry
    \/ ReceiverCheck
    \/ ReceiverReceive
    \/ ReceiverResume
    \/ ReceiverReport
    \/ Tick

\* the program as built: fixed-priority preemptive scheduler
InitBuild == \E n \in Neighbours :
    Init([sched |-> "priority", clock |-> "burst", tickRateHz |-> TickRateHz,
          senderDelayMs |-> SenderDelayMs, receiveTimeoutMs |-> ReceiveTimeoutMs,
          neighbour |-> n])

\* every interleaving of the tasks, on a coarse clock
InitAnySched == \E n \in Neighbours :
    Init([sched |-> "any", clock |-> "free", tickRateHz |-> CoarseTickRateHz,
          senderDelayMs |-> SenderDelayMs, receiveTimeoutMs |-> ReceiveTimeoutMs,
          neighbour |-> n])

\* the delays a changed build may pass to vTaskDelay and xQueueReceive
DelayChoicesMs == {0, SenderDelayMs, ReceiveTimeoutMs, SenderDelayMs + ReceiveTimeoutMs}

\* the program with the priorities of main.c and any of the delays above, the
\* tick falling anywhere between the steps of the tasks
InitDelays == \E n \in Neighbours, sd \in DelayChoicesMs, rt \in DelayChoicesMs :
    Init([sched |-> "priority", clock |-> "free", tickRateHz |-> CoarseTickRateHz,
          senderDelayMs |-> sd, receiveTimeoutMs |-> rt, neighbour |-> n])

Spec == InitBuild /\ [][Next]_vars

SpecAnySched == InitAnySched /\ [][Next]_vars

\* the kernel keeps time running and always runs a task that can run
FairSpec == Spec /\ WF_vars(Next)

SpecDelays == InitDelays /\ [][Next]_vars

FairSpecDelays == SpecDelays /\ WF_vars(Next)

-----------------------------------------------------------------------------
(* Claims *)

Range(q) == {q[i] : i \in 1..Len(q)}

\* C1: in every reachable state, for every interleaving of the two senders
\* and the receiver, the number of values buffered in the queue is between 0
\* and 5 inclusive.
C1_OccupancyWithinCapacity ==
    /\ uxQueueMessagesWaiting(queue) >= 0
    /\ uxQueueMessagesWaiting(queue) <= 5

\* the queue is full and a sender is about to send once more
C1_Witness ==
    /\ uxQueueMessagesWaiting(queue) = 5
    /\ \E t \in Senders : pc[t] = "send" /\ tstate[t] = "ready"

\* C2: while a value is in the queue no sender takes a step, and the next
\* step of the receiver takes that value out of the queue with pdPASS: the
\* receiver (priority 2) dequeues it before either sender (priority 1) runs
\* again.
C2_ReceiverRunsBeforeSenders ==
    [][queue # <<>> =>
          /\ \A t \in Senders : pc'[t] = pc[t]
          /\ pc'[Receiver] # pc[Receiver] =>
                /\ queue' = Tail(queue)
                /\ lReceivedValue' = Head(queue)
                /\ rStatus' = pdPASS]_vars

\* a sender's send has just made the queue non-empty and readied the receiver
C2_Witness ==
    /\ Len(queue) = 1
    /\ \E t \in Senders : pc[t] = "status" /\ sStatus[t] = pdPASS
    /\ pc[Receiver] = "blockedReceive" /\ tstate[Receiver] = "ready"

\* C3: the values received so far followed by the queue contents are the
\* values enqueued so far, in enqueue order (sent and received hold the two
\* histories with their common prefix removed, which leaves the equation
\* unchanged): nothing is lost, duplicated, altered or reordered.
C3_ReceivedThenQueuedIsSent == received \o queue = sent

\* the receiver has just taken a value out of a queue that still holds values
\* of both senders
C3_Witness ==
    /\ pc[Receiver] = "report" /\ rStatus = pdPASS
    /\ lReceivedValue \in {Sender1Value, Sender2Value}
    /\ {Sender1Value, Sender2Value} \subseteq Range(queue)

\* C4: every value a sender enqueues is eventually dequeued by the receiver:
\* a value that is in the queue leads to a state in which the receiver holds
\* it in lReceivedValue with pdPASS and the queue no longer holds it.
C4_EnqueuedIsEventuallyDequeued ==
    \A v \in {Sender1Value, Sender2Value} :
        (v \in Range(queue)) ~>
            (/\ pc[Receiver] = "report" /\ rStatus = pdPASS
             /\ lReceivedValue = v /\ v \notin Range(queue))

\* the receiver holds the value Sender2 enqueued
C4_Witness ==
    /\ pc[Receiver] = "report" /\ rStatus = pdPASS
    /\ lReceivedValue = Sender2Value /\ queue = <<>>

\* C5: whenever the receiver is at the occupancy check at the top of its loop
\* the queue is empty, and "Queue should have been empty!" is never emitted.
C5_CheckFindsQueueEmpty ==
    /\ pc[Receiver] = "check" => uxQueueMessagesWaiting(queue) = 0
    /\ out # <<MsgShouldBeEmpty>>

\* the receiver is back at the check after it reported a received value
C5_Witness ==
    /\ pc[Receiver] = "check"
    /\ out = <<SprintfReceived(Sender1Value)>>

\* C6: the queue never holds more than one item, no send fails and "Could not
\* send to the queue." is never emitted.
C6_AtMostOneItemNoSendFails ==
    /\ Len(queue) <= 1
    /\ \A t \in Senders : pc[t] = "status" => sStatus[t] = pdPASS
    /\ out # <<MsgCouldNotSend>>

\* a sender has just sent while the other sender is ready to send
C6_Witness ==
    /\ Len(queue) = 1
    /\ pc["Sender2"] = "status" /\ sStatus["Sender2"] = pdPASS
    /\ pc["Sender1"] = "send" /\ tstate["Sender1"] = "ready"

\* C7: no receive of the receiver times out: the receive never returns
\* without pdPASS and "Could not receive from the queue." is never emitted.
C7_NoReceiveTimesOut ==
    /\ pc[Receiver] = "report" => rStatus = pdPASS
    /\ out # <<MsgCouldNotReceive>>

\* C8: a send attempted while the queue holds 5 values returns failure
\* without blocking the sender and leaves the queue as it was; the sender then
\* emits "Could not send to the queue." and goes on to the delay of its next
\* iteration, from which it comes back to the send.
C8_FullQueueSendFailsAndSenderGoesOn ==
    [][\A t \in Senders :
          /\ (pc[t] = "send" /\ pc'[t] # pc[t] /\ Len(queue) = 5) =>
                /\ sStatus'[t] # pdPASS
                /\ queue' = queue
                /\ tstate'[t] = "ready"
                /\ pc'[t] = "status"
          /\ (pc[t] = "status" /\ pc'[t] # pc[t] /\ sStatus[t] # pdPASS) =>
                /\ out' = <<<<"Could not send to the queue.\r\n">>>>
                /\ tstate'[t] = "ready"
                /\ pc'[t] = "delay"
          /\ (pc[t] = "delay" /\ pc'[t] # pc[t]) => pc'[t] = "send"]_vars

\* a sender has reported the failed send and the queue still holds 5 values
C8_Witness ==
    /\ out = <<MsgCouldNotSend>>
    /\ Len(queue) = 5
    /\ \E t \in Senders : pc[t] = "delay" /\ sStatus[t] # pdPASS

\* C9: the receiver emits "Could not receive from the queue." in an iteration
\* exactly when its receive was blocked for the whole 100 ms with no value
\* enqueued meanwhile; a value enqueued while the receive is blocked readies
\* the receiver at once and that receive returns pdPASS; after its report the
\* receiver is back at the top of its loop.
C9_TimeoutExactlyAfterWholeWait ==
    [][/\ (pc[Receiver] = "report" /\ pc'[Receiver] # pc[Receiver]) =>
             /\ (out' = <<MsgCouldNotReceive>>) <=>
                    (waited = pdMS_TO_TICKS(100) /\ ~sentInWait)
             /\ pc'[Receiver] = "check"
       /\ (tstate[Receiver] = "blocked" /\ Len(queue') > Len(queue)) =>
             tstate'[Receiver] = "ready"
       /\ (pc[Receiver] = "blockedReceive" /\ sentInWait /\ pc'[Receiver] # pc[Receiver]) =>
             rStatus' = pdPASS]_vars

\* xQueueCreate has returned NULL
QueueCreationFailed == pcMain \notin {"boot", "create"} /\ xQueue = NULL

\* C10: once queue creation has failed, main is in its halt loop for good: no
\* task exists, the scheduler is not started, no task has taken a step and
\* nothing was sent to or received from the queue.
C10_CreationFailureHalts ==
    /\ [](QueueCreationFailed =>
            /\ pcMain = "halt"
            /\ \A t \in Tasks : tstate[t] = "none" /\ pc[t] = "entry"
            /\ queue = <<>> /\ sent = <<>> /\ received = <<>>)
    /\ [][QueueCreationFailed => QueueCreationFailed']_vars

\* main sits in the halt loop with a NULL queue handle
C10_Witness == pcMain = "halt" /\ xQueue = NULL

\* the delays differ from the ones main.c passes
DelaysChanged ==
    cfg.senderDelayMs # SenderDelayMs \/ cfg.receiveTimeoutMs # ReceiveTimeoutMs

\* the receiver's occupancy check sees a value in the queue
CheckSeesNonEmpty == pc[Receiver] = "check" /\ uxQueueMessagesWaiting(queue) # 0

\* C11 as stated: once the scheduler runs with the priorities of main.c and
\* changed delays, the receiver's occupancy check comes to see a non-empty
\* queue.
C11_ChangedDelaysReachNonEmptyCheck ==
    (pcMain = "sched" /\ DelaysChanged) ~> CheckSeesNonEmpty

\* C11 (amended): with the priorities of main.c, whatever the sender delay and
\* the receiver timeout are, the receiver's occupancy check never sees a
\* non-empty queue; the check emits "Queue should have been empty!" in exactly
\* the iterations in which it sees a non-empty queue, hence never.
C11_NoDelaysReachNonEmptyCheck ==
    /\ [](~CheckSeesNonEmpty)
    /\ [][(pc[Receiver] = "check" /\ pc'[Receiver] # pc[Receiver]) =>
             /\ (out' = <<<<"Queue should have been empty!\r\n">>>>) <=>
                    (uxQueueMessagesWaiting(queue) # 0)
             /\ out' # <<<<"Queue should have been empty!\r\n">>>>]_vars

\* with a sender delay of 0 and a receiver timeout of 50 ms the receiver has
\* received a value and is back at its occupancy check, while both senders,
\* which never wait, are ready to run
C11_Witness ==
    /\ cfg.senderDelayMs = 0 /\ cfg.receiveTimeoutMs = SenderDelayMs
    /\ pc[Receiver] = "check"
    /\ out = <<SprintfReceived(Sender2Value)>>
    /\ \A t \in Senders : tstate[t] = "ready"

\* the tag the specification gives each sender
OwnTag(t) == IF t = "Sender1" THEN 100 ELSE 200

\* C12: from its first statement on a sender's lValueToSend is its tag (100
\* for Sender1, 200 for Sender2) and never changes; a successful send appends
\* the sender's own tag to the queue; every element of the queue and every
\* value the receiver has just received is 100 or 200.
C12_SendersSendTheirOwnTag ==
    /\ [](\A t \in Senders : pc[t] # "entry" => lValueToSend[t] = OwnTag(t))
    /\ [](\A i \in 1..Len(queue) : queue[i] \in {100, 200})
    /\ []((pc[Receiver] = "report" /\ rStatus = pdPASS) => lReceivedValue \in {100, 200})
    /\ [][\A t \in Senders :
            /\ pc[t] # "entry" => lValueToSend'[t] = lValueToSend[t]
            /\ (pc[t] = "send" /\ pc'[t] # pc[t] /\ sStatus'[t] = pdPASS) =>
                  queue' = Append(queue, OwnTag(t))]_vars

\* the receiver has just received 200 and the queue is full of values of both
\* senders
C12_Witness ==
    /\ pc[Receiver] = "report" /\ rStatus = pdPASS /\ lReceivedValue = 200
    /\ Len(queue) = 5
    /\ Range(queue) = {100, 200}

\* printf conversion "%4d": a sign only for a negative value, then the digits,
\* blank-padded on the left to a field of 4
Format4d(v) == PadLeft((IF v < 0 THEN <<"-">> ELSE <<>>) \o Digits(IF v < 0 THEN -v ELSE v), 4)

\* C13: the line the receiver emits for a received value is "Received = ",
\* the value as "%4d" formats it (right-justified in a field of 4), CRLF; for
\* that value "% 4ld" and "%4d" give the same text.
C13_ReceivedLineIsWidth4 ==
    [][(pc[Receiver] = "report" /\ pc'[Receiver] # pc[Receiver] /\ rStatus = pdPASS) =>
          /\ out' = << <<"Received = ">> \o Format4d(lReceivedValue) \o <<"\r\n">> >>
          /\ FormatSpace4ld(lReceivedValue) = Format4d(lReceivedValue)]_vars

\* the line for the value 200 has just been emitted
C13_Witness ==
    /\ pc[Receiver] = "check"
    /\ out = << <<"Received = ", " ", "2", "0", "0", "\r\n">> >>

\* C14: for every value the receiver receives, the text sprintf writes into
\* str, the terminating NUL included, is at most 16 bytes long, so the write
\* stays inside str[16].
C14_SprintfFitsStr ==
    (pc[Receiver] = "report" /\ rStatus = pdPASS) =>
        /\ SprintfBytes(lReceivedValue) <= 16
        /\ ~StrOverflow(lReceivedValue)

\* C15: once the scheduler runs, every task exists for good, and again and
\* again each sender comes to a send attempt and completes it and the receiver
\* starts a receive and completes it (with a value or by timeout): no task
\* ends, the system does not deadlock and no sender is starved.  (pcMain stays
\* "sched" once the scheduler runs, so each []<> below says "infinitely often
\* once the scheduler runs".)
C15_EveryTaskRunsForever ==
    /\ [](pcMain = "sched" => \A t \in Tasks : tstate[t] # "none")
    /\ \A t \in Senders :
          /\ []<>(pcMain # "sched" \/ (pc[t] = "send" /\ tstate[t] = "ready"))
          /\ []<>(pcMain # "sched" \/ pc[t] = "status")
    /\ []<>(pcMain # "sched" \/ pc[Receiver] = "receive")
    /\ []<>(pcMain # "sched" \/ pc[Receiver] = "report")

\* both senders are ready to send at the same time while the receiver, which
\* has received a value before, is blocked on the queue
C15_Witness ==
    /\ pcMain = "sched"
    /\ \A t \in Senders : pc[t] = "send" /\ tstate[t] = "ready"
    /\ pc[Receiver] = "blockedReceive" /\ tstate[Receiver] = "blocked"
    /\ lReceivedValue = 200

\* a step in which task t executes a call on the queue
QueueOperation(t) ==
    /\ pc'[t] # pc[t]
    /\ pc[t] \in {"send", "check", "receive", "blockedReceive"}

\* C16: the queue handle is assigned once, by main before any task exists and
\* before the scheduler runs; it is valid whenever a task exists, whenever the
\* scheduler runs and in every step in which a task executes a queue
\* operation, and once valid it never changes.
C16_QueueCreatedOnceBeforeTasks ==
    /\ [][xQueue' # xQueue =>
             /\ pcMain = "create" /\ xQueue = NULL
             /\ \A t \in Tasks : tstate[t] = "none"]_vars
    /\ []((pcMain = "sched" \/ \E t \in Tasks : tstate[t] # "none") => xQueue # NULL)
    /\ [][\A t \in Tasks : QueueOperation(t) => xQueue # NULL /\ xQueue' = xQueue]_vars
    /\ [][xQueue # NULL => xQueue' = xQueue]_vars

\* Sender1 has just put its value into the queue that main created
C16_Witness ==
    /\ pcMain = "sched" /\ xQueue = QueueHandle
    /\ pc["Sender1"] = "status" /\ sStatus["Sender1"] = pdPASS
    /\ queue = <<100>>

\* C17: a sender's loop is delay, one send attempt, status check, in this
\* order; the delay is one of 50 ms; a send attempt raises the occupancy by at
\* most 1 and no other step of a sender changes the queue; at a send attempt
\* at least 50 ms (in ticks) have passed since the scheduler started and since
\* the same sender's previous send attempt.
C17_SenderDelaysThenSendsOnce ==
    [][\A t \in Senders : pc'[t] # pc[t] =>
          /\ pc[t] \in {"entry", "status"} => pc'[t] = "delay" /\ queue' = queue
          /\ pc[t] = "delay" =>
                /\ pc'[t] = "send" /\ queue' = queue
                /\ tstate'[t] = "delayed" /\ timer'[t] = (50 * cfg.tickRateHz) \div 1000
          /\ pc[t] = "send" =>
                /\ pc'[t] = "status"
                /\ Len(queue') \in {Len(queue), Len(queue) + 1}
                /\ sinceSend[t] >= (50 * cfg.tickRateHz) \div 1000]_vars

\* Sender1 has sent for the second time: its first value was received and the
\* 50 ms since its first send attempt have passed again
C17_Witness ==
    /\ pc["Sender1"] = "status" /\ sinceSend["Sender1"] = 0
    /\ queue = <<100>>
    /\ lReceivedValue = 100 /\ rStatus = pdPASS

\* C18: a step of a task changes no local of another task (lValueToSend and
\* xStatus of the other sender, lReceivedValue, xStatus and xTicksToWait of
\* the receiver), no other task's position and not the queue handle: what one
\* task's step changes for another is the queue contents only.  The serial
\* line is written by the receiver alone once the scheduler runs.
C18_TasksShareOnlyTheQueue ==
    [][\A t \in Tasks : pc'[t] # pc[t] =>
          /\ \A u \in Tasks \ {t} : pc'[u] = pc[u]
          /\ \A u \in Senders \ {t} :
                lValueToSend'[u] = lValueToSend[u] /\ sStatus'[u] = sStatus[u]
          /\ t \in Senders =>
                /\ lReceivedValue' = lReceivedValue
                /\ rStatus' = rStatus
                /\ xTicksToWait' = xTicksToWait
          /\ xQueue' = xQueue
          /\ out' # <<>> => t = Receiver]_vars

\* Sender2 has just sent while Sender1 and the receiver hold their own values
C18_Witness ==
    /\ pc["Sender2"] = "status" /\ queue = <<200>>
    /\ lValueToSend["Sender1"] = 100 /\ lValueToSend["Sender2"] = 200
    /\ lReceivedValue = 100
    /\ pc[Receiver] = "blockedReceive"

====
